---- MODULE Spec2Model ----
(***************************************************************************)
(* Model of crud.py: a Flask proxy that forwards CRUD requests for the     *)
(* UsersDB table to the Backendless data API and relays the answers.       *)
(*                                                                         *)
(* One inbound request is followed through its handler: the handler runs   *)
(* up to its outbound `requests.<verb>` call (or rejects the request       *)
(* locally), the external service answers (or cannot be reached), and the  *)
(* handler builds the reply.  The service keeps no state between requests. *)
(*                                                                         *)
(* Text is modelled as a sequence of one-character strings wherever the    *)
(* code inspects or rewrites it (int(), str(), urlencode, f-strings).      *)
(***************************************************************************)
EXTENDS Integers, Sequences, FiniteSets, TLC

VARIABLES pc, req, sent, resp, reply

vars == <<pc, req, sent, resp, reply>>

(***************************************************************************)
(* Bounds of the model                                                     *)
(***************************************************************************)
\* longest text of an inbound pageSize / offset query argument
MaxLen == 2

\* characters an inbound pageSize / offset argument is built from
NumChars == {"0", "7", "-", "x"}

RECURSIVE TextsUpTo(_)
TextsUpTo(n) ==
    IF n = 0 THEN {<<>>}
    ELSE LET shorter == TextsUpTo(n - 1)
         IN  shorter \cup {Append(t, c) : t \in shorter, c \in NumChars}

NumTexts == TextsUpTo(MaxLen)

\* inbound `where` and `sortBy` arguments (opaque text, possibly empty)
WhereTexts == {<<>>, <<"u", "=", "'", "l", "'">>, <<"a", " ", "+", "%">>}
SortTexts == {<<>>, <<"c", " ", "d">>}

\* path segments: object ids, e-mails, user names
ObjectIds == {"id1", "id2"}
Literals == {<<"a">>, <<"o", "'", "b">>}

\* values of the fields of an inbound JSON object
FieldValues == {"", "v"}

\* what the external service may answer
Statuses == {200, 201, 204, 304, 400, 404, 500}
JsonValues == {"J"}
RawTexts == {"", "oops"}

(***************************************************************************)
(* Configuration (crud.py 11-28)                                           *)
(***************************************************************************)
BACKENDLESS_BASE_URL == "https://neatpartner-us.backendless.app/api/data/UsersDB"

(***************************************************************************)
(* Python text helpers                                                     *)
(***************************************************************************)
Digits == <<"0", "1", "2", "3", "4", "5", "6", "7", "8", "9">>

IsDigit(c) == \E i \in 1..10 : Digits[i] = c

DigitValue(c) == (CHOOSE i \in 1..10 : Digits[i] = c) - 1

\* value of a non-empty run of decimal digits, most significant first
RECURSIVE DigitsValue(_)
DigitsValue(t) ==
    IF t = <<>> THEN 0
    ELSE DigitsValue(SubSeq(t, 1, Len(t) - 1)) * 10 + DigitValue(t[Len(t)])

AllDigits(t) == t # <<>> /\ \A i \in 1..Len(t) : IsDigit(t[i])

\* int(text): an optional sign followed by decimal digits, else ValueError
int(t) ==
    IF AllDigits(t) THEN [ok |-> TRUE, val |-> DigitsValue(t)]
    ELSE IF t # <<>> /\ t[1] = "-" /\ AllDigits(Tail(t))
         THEN [ok |-> TRUE, val |-> 0 - DigitsValue(Tail(t))]
         ELSE [ok |-> FALSE, val |-> 0]

\* str(n) of an integer
RECURSIVE NatStr(_)
NatStr(n) ==
    IF n < 10 THEN <<Digits[n + 1]>>
    ELSE Append(NatStr(n \div 10), Digits[(n % 10) + 1])

str(n) == IF n < 0 THEN <<"-">> \o NatStr(0 - n) ELSE NatStr(n)

\* urllib.parse.quote_plus, character by character
SafeChars == {"a", "b", "c", "d", "e", "i", "l", "m", "n", "o", "r", "s", "u",
              "0", "1", "2", "3", "4", "5", "6", "7", "8", "9",
              "_", ".", "-", "~"}

quote_char(c) ==
    IF c \in SafeChars THEN <<c>>
    ELSE IF c = " " THEN <<"+">>
    ELSE IF c = "'" THEN <<"%", "2", "7">>
    ELSE IF c = "=" THEN <<"%", "3", "D">>
    ELSE IF c = "+" THEN <<"%", "2", "B">>
    ELSE IF c = "%" THEN <<"%", "2", "5">>
    ELSE <<"%", "?", "?">>

RECURSIVE quote_plus(_)
quote_plus(t) ==
    IF t = <<>> THEN <<>> ELSE quote_char(Head(t)) \o quote_plus(Tail(t))

\* urlencode(params): the (key, quoted value) pairs in the dict's order
RECURSIVE urlencode(_)
urlencode(params) ==
    IF params = <<>> THEN <<>>
    ELSE <<[key |-> Head(params).key, value |-> quote_plus(Head(params).value)]>>
         \o urlencode(Tail(params))

(***************************************************************************)
(* Inbound requests                                                        *)
(***************************************************************************)
ALLOWED == {"email", "First Name", "Last Name", "ID", "password", "username"}

\* keys an inbound JSON object may carry: the allow-list and two others
BodyKeys == ALLOWED \cup {"extra", "objectId"}

\* JSON objects: email and username may be missing, empty or set; every
\* other key is missing or set
ObjectBodies ==
    UNION {[D -> FieldValues] : D \in SUBSET {"email", "username"}}

OtherFields == UNION {[D -> {"v"}] : D \in SUBSET (BodyKeys \ {"email", "username"})}

\* request bodies of POST / PUT / PATCH:
\*   malformed  text that is no JSON
\*   object     a JSON object
\*   falsy      JSON null, false, 0, "", [] or {} (replaced by {} at 118/144)
\*   number     a non-zero JSON number or true
\*   list       a non-empty JSON array of strings
\*   string     a non-empty JSON string
Bodies ==
    {[kind |-> "malformed"], [kind |-> "falsy"], [kind |-> "number"]}
    \cup {[kind |-> "object", fields |-> a @@ b] : a \in ObjectBodies, b \in OtherFields}
    \cup {[kind |-> "list", items |-> i] : i \in {{"zzz"}, {"email", "zzz"}}}
    \cup {[kind |-> "string", text |-> t] : t \in {"hi", "email"}}

\* query arguments of GET /users: each of the four may be absent
ArgsOf(key, texts) == {<<>>} \cup {[k \in {key} |-> t] : t \in texts}

ListArgs ==
    {a @@ b @@ c @@ d : a \in ArgsOf("pageSize", NumTexts),
                        b \in ArgsOf("offset", NumTexts),
                        c \in ArgsOf("where", WhereTexts),
                        d \in ArgsOf("sortBy", SortTexts)}

NoReq == [op |-> "none"]
NoResp == [kind |-> "none"]
NoReply == [kind |-> "none"]

(***************************************************************************)
(* External service                                                        *)
(***************************************************************************)
\* an HTTP answer: a status and a body that is JSON text or other text
Responses ==
    {[kind |-> "http", status |-> s, body |-> [json |-> TRUE, value |-> v]] :
        s \in Statuses, v \in JsonValues}
    \cup {[kind |-> "http", status |-> s, body |-> [json |-> FALSE, text |-> t]] :
        s \in Statuses, t \in RawTexts}

\* requests.Response.ok: raise_for_status() would not raise (no 4xx, no 5xx)
ok(r) == ~(400 <= r.status /\ r.status < 600)

(***************************************************************************)
(* Replies to the caller                                                   *)
(***************************************************************************)
\* flask.abort(code, description=...)
abort(code, description) ==
    [kind |-> "abort", status |-> code, description |-> description]

\* an exception no handler catches: Flask answers 500
InternalServerError == [kind |-> "exception", status |-> 500]

\* jsonify(value), status
jsonify(value, status) == [kind |-> "json", status |-> status, value |-> value]

(***************************************************************************)
(* Utilidades                                                              *)
(***************************************************************************)
\* be_error answering 500 whatever the external status
be_error_500(r) ==
    LET payload == IF r.body.json
                   THEN [json |-> TRUE, value |-> r.body.value]
                   ELSE [json |-> FALSE,
                         message |-> IF r.body.text # "" THEN r.body.text
                                     ELSE "Backendless error"]
    IN  [kind |-> "envelope", status |-> 500,
         error |-> TRUE, body_status |-> r.status, backendless |-> payload]

be_error(r) ==
    LET payload == IF r.body.json
                   THEN [json |-> TRUE, value |-> r.body.value]
                   ELSE [json |-> FALSE,
                         message |-> IF r.body.text # "" THEN r.body.text
                                     ELSE "Backendless error"]
    IN  [kind |-> "envelope", status |-> r.status,
         error |-> TRUE, body_status |-> r.status, backendless |-> payload]

\* `k in data` for the JSON values a body can be (membership for an object
\* or a list; for a string, whose texts here hold at most one key, the
\* substring test); a number raises TypeError in pick_loop
contains(data, k) ==
    IF data.kind = "object" THEN k \in DOMAIN data.fields
    ELSE IF data.kind = "list" THEN k \in data.items
    ELSE IF data.kind = "string" THEN k = data.text
    ELSE FALSE

\* the loop of pick_user_fields over the keys still to visit
RECURSIVE pick_loop(_, _, _)
pick_loop(keys, data, out) ==
    IF keys = {} THEN [ok |-> TRUE, out |-> out]
    ELSE LET k == CHOOSE x \in keys : TRUE
         IN  IF data.kind = "number" THEN [ok |-> FALSE, out |-> out]
             ELSE IF contains(data, k)
                  THEN IF data.kind = "object"
                       THEN pick_loop(keys \ {k}, data, out @@ [x \in {k} |-> data.fields[k]])
                       ELSE [ok |-> FALSE, out |-> out]
                  ELSE pick_loop(keys \ {k}, data, out)

\* pick_user_fields copying every field of an object
pick_all_fields(data) ==
    IF data.kind = "object" THEN [ok |-> TRUE, out |-> data.fields]
    ELSE pick_loop(ALLOWED, data, <<>>)

pick_user_fields(data) == pick_loop(ALLOWED, data, <<>>)

\* request.get_json(force=True) or {}
get_json(body) ==
    IF body.kind = "malformed" THEN [ok |-> FALSE]
    ELSE IF body.kind = "falsy" THEN [ok |-> TRUE, data |-> [kind |-> "object", fields |-> <<>>]]
    ELSE [ok |-> TRUE, data |-> body]

\* json.dumps(payload): the members of the JSON object
json_dumps(payload) == {<<k, payload[k]>> : k \in DOMAIN payload}

(***************************************************************************)
(* Handlers, up to the outbound call                                       *)
(*                                                                         *)
(* Each yields either [forward |-> TRUE, call |-> the outbound request]    *)
(* or [forward |-> FALSE, reply |-> the reply that ends the request].      *)
(***************************************************************************)
Forward(call) == [forward |-> TRUE, call |-> call]
Reject(r) == [forward |-> FALSE, reply |-> r]

NoData == [present |-> FALSE]
Url(path, query) == [path |-> path, query |-> query]

DefaultPageSize == 50
DefaultOffset == 0

\* `is not None` in place of truthiness
is_present(args, key) == key \in DOMAIN args

\* a truthy query argument: present and not the empty text
truthy(args, key) == key \in DOMAIN args /\ args[key] # <<>>

\* int(request.args.get(key, default))
int_arg(args, key, default) ==
    IF key \in DOMAIN args THEN int(args[key]) ELSE [ok |-> TRUE, val |-> default]

\* the params dict of list_users, in insertion order; urlencode applies
\* str() to the two integers
list_params(args, page_size, offset) ==
    <<[key |-> "pageSize", value |-> str(page_size)],
      [key |-> "offset", value |-> str(offset)]>>
    \o (IF truthy(args, "where")
        THEN <<[key |-> "where", value |-> args["where"]]>> ELSE <<>>)
    \o (IF truthy(args, "sortBy")
        THEN <<[key |-> "sortBy", value |-> args["sortBy"]]>> ELSE <<>>)

list_users(args) ==
    LET page_size == int_arg(args, "pageSize", DefaultPageSize)
        offset == int_arg(args, "offset", DefaultOffset)
    IN  IF ~page_size.ok \/ ~offset.ok THEN Reject(InternalServerError)
        ELSE Forward([method |-> "GET",
                      url |-> Url(<<BACKENDLESS_BASE_URL>>,
                                  urlencode(list_params(args, page_size.val, offset.val))),
                      data |-> NoData])

get_user(object_id) ==
    Forward([method |-> "GET",
             url |-> Url(<<BACKENDLESS_BASE_URL, object_id>>, <<>>),
             data |-> NoData])

\* the except branch without its abort
invalid_json_unhandled == InternalServerError

invalid_json == abort(400, "Invalid JSON body")

\* `and` in place of `or` at line 125
has_required_either(payload) ==
    "email" \in DOMAIN payload \/ "username" \in DOMAIN payload

\* a validation that also refuses empty values
has_required_nonempty(payload) ==
    /\ "email" \in DOMAIN payload /\ payload["email"] # ""
    /\ "username" \in DOMAIN payload /\ payload["username"] # ""

\* the validation of create_user: both keys are in the filtered payload
has_required(payload) ==
    "email" \in DOMAIN payload /\ "username" \in DOMAIN payload

create_user(body) ==
    LET incoming == get_json(body)
    IN  IF ~incoming.ok THEN Reject(invalid_json)
        ELSE LET payload == pick_user_fields(incoming.data)
             IN  IF ~payload.ok THEN Reject(InternalServerError)
                 ELSE IF ~has_required(payload.out)
                 THEN Reject(abort(400, "Fields 'email' and 'username' are required"))
                 ELSE Forward([method |-> "POST",
                               url |-> Url(<<BACKENDLESS_BASE_URL>>, <<>>),
                               data |-> [present |-> TRUE,
                                         json |-> json_dumps(payload.out)]])

\* update_user without the check of line 149
has_updatable_always(payload) == TRUE

\* the validation of update_user: the filtered payload is not empty
has_updatable(payload) == DOMAIN payload # {}

update_user(object_id, body) ==
    LET incoming == get_json(body)
    IN  IF ~incoming.ok THEN Reject(invalid_json)
        ELSE LET payload == pick_user_fields(incoming.data)
             IN  IF ~payload.ok THEN Reject(InternalServerError)
                 ELSE IF ~has_updatable(payload.out)
                 THEN Reject(abort(400, "No updatable fields provided"))
                 ELSE Forward([method |-> "PUT",
                               url |-> Url(<<BACKENDLESS_BASE_URL, object_id>>, <<>>),
                               data |-> [present |-> TRUE,
                                         json |-> json_dumps(payload.out)]])

delete_user(object_id) ==
    Forward([method |-> "DELETE",
             url |-> Url(<<BACKENDLESS_BASE_URL, object_id>>, <<>>),
             data |-> NoData])

\* f"{field}='{value}'"
where_equals(field, value) == field \o <<"=", "'">> \o value \o <<"'">>

find_params(where) ==
    <<[key |-> "where", value |-> where],
      [key |-> "pageSize", value |-> str(50)],
      [key |-> "offset", value |-> str(0)]>>

find_by_email(email) ==
    Forward([method |-> "GET",
             url |-> Url(<<BACKENDLESS_BASE_URL>>,
                         urlencode(find_params(
                             where_equals(<<"e", "m", "a", "i", "l">>, email)))),
             data |-> NoData])

find_by_username(username) ==
    Forward([method |-> "GET",
             url |-> Url(<<BACKENDLESS_BASE_URL>>,
                         urlencode(find_params(
                             where_equals(<<"u", "s", "e", "r", "n", "a", "m", "e">>,
                                          username)))),
             data |-> NoData])

(***************************************************************************)
(* Handlers, after the outbound call                                       *)
(***************************************************************************)
\* jsonify(resp.json()), status: resp.json() raises on a body that is no JSON
json_reply(r, status) ==
    IF r.body.json THEN jsonify(r.body.value, status) ELSE InternalServerError

\* the tail shared by every handler but delete_user; `requests` raises when
\* the service cannot be reached and nothing catches it
relay(r, status) ==
    IF r.kind = "unreachable" THEN InternalServerError
    ELSE IF ~ok(r) THEN be_error(r)
    ELSE json_reply(r, status)

\* list_users mirroring the external status on success
list_users_mirror(r) == relay(r, IF r.kind = "http" THEN r.status ELSE 200)

list_users_return(r) == relay(r, 200)
get_user_return(r) == relay(r, 200)
create_user_return(r) == relay(r, 201)
update_user_return(r) == relay(r, 200)
find_return(r) == relay(r, 200)

\* delete_user testing resp.ok like the other handlers
delete_ok_like_others(r) == ok(r)

\* the statuses delete_user takes for a success
delete_ok(r) == r.status \in {200, 204}

delete_user_return(r, object_id) ==
    IF r.kind = "unreachable" THEN InternalServerError
    ELSE IF ~delete_ok(r) THEN be_error(r)
    ELSE [kind |-> "deleted", status |-> 200, deleted |-> TRUE, objectId |-> object_id]

(***************************************************************************)
(* State machine                                                           *)
(***************************************************************************)
Init ==
    /\ pc = "idle"
    /\ req = NoReq
    /\ sent = <<>>
    /\ resp = NoResp
    /\ reply = NoReply

\* an outbound call that is repeated
send_twice(call) == Append(Append(sent, call), call)

\* requests.<verb>(url, ...): one outbound call is issued
send(call) == Append(sent, call)

\* a request arrives and its handler runs to the outbound call or to a
\* local rejection
Start(request, outcome) ==
    /\ req' = request
    /\ resp' = resp
    /\ IF outcome.forward
       THEN /\ sent' = send(outcome.call)
            /\ reply' = reply
            /\ pc' = "awaiting"
       ELSE /\ sent' = sent
            /\ reply' = outcome.reply
            /\ pc' = "done"

ListUsers ==
    /\ pc = "idle"
    /\ \E args \in ListArgs : Start([op |-> "list", args |-> args], list_users(args))

GetUser ==
    /\ pc = "idle"
    /\ \E id \in ObjectIds : Start([op |-> "get", id |-> id], get_user(id))

CreateUser ==
    /\ pc = "idle"
    /\ \E body \in Bodies : Start([op |-> "create", body |-> body], create_user(body))

UpdateUser ==
    /\ pc = "idle"
    /\ \E id \in ObjectIds, body \in Bodies, m \in {"PUT", "PATCH"} :
        Start([op |-> "update", method |-> m, id |-> id, body |-> body],
              update_user(id, body))

DeleteUser ==
    /\ pc = "idle"
    /\ \E id \in ObjectIds : Start([op |-> "delete", id |-> id], delete_user(id))

FindByEmail ==
    /\ pc = "idle"
    /\ \E email \in Literals :
        Start([op |-> "by-email", value |-> email], find_by_email(email))

FindByUsername ==
    /\ pc = "idle"
    /\ \E username \in Literals :
        Start([op |-> "by-username", value |-> username], find_by_username(username))

\* the external service answers the outbound call
ExternalResponds ==
    /\ pc = "awaiting"
    /\ \E r \in Responses : resp' = r
    /\ pc' = "responded"
    /\ UNCHANGED <<req, sent, reply>>

\* the external service cannot be reached: the outbound call raises
ExternalUnreachable ==
    /\ pc = "awaiting"
    /\ resp' = [kind |-> "unreachable"]
    /\ pc' = "responded"
    /\ UNCHANGED <<req, sent, reply>>

\* the handler resumes with the outcome of the outbound call
Finish(op, r) ==
    /\ pc = "responded"
    /\ req.op = op
    /\ reply' = r
    /\ pc' = "done"
    /\ UNCHANGED <<req, sent, resp>>

ListUsersReturn == Finish("list", list_users_return(resp))
GetUserReturn == Finish("get", get_user_return(resp))
CreateUserReturn == Finish("create", create_user_return(resp))
UpdateUserReturn == Finish("update", update_user_return(resp))
DeleteUserReturn == Finish("delete", delete_user_return(resp, req.id))
FindByEmailReturn == Finish("by-email", find_return(resp))
FindByUsernameReturn == Finish("by-username", find_return(resp))

\* the request is over; nothing of it is kept for the next one
NextRequest ==
    /\ pc = "done"
    /\ pc' = "idle"
    /\ req' = NoReq
    /\ sent' = <<>>
    /\ resp' = NoResp
    /\ reply' = NoReply

Next ==
    \/ CreateUser
    \/ UpdateUser
    \/ ListUsers
    \/ GetUser
    \/ DeleteUser
    \/ FindByEmail
    \/ FindByUsername
    \/ ExternalResponds
    \/ ExternalUnreachable
    \/ ListUsersReturn
    \/ GetUserReturn
    \/ CreateUserReturn
    \/ UpdateUserReturn
    \/ DeleteUserReturn
    \/ FindByEmailReturn
    \/ FindByUsernameReturn
    \/ NextRequest

Spec == Init /\ [][Next]_vars

(***************************************************************************)
(* Vocabulary of the properties                                            *)
(***************************************************************************)
Forwarded == sent # <<>>
Answered == pc = "done"
IsWrite == req.op \in {"create", "update"}

\* the payload pick_user_fields leaves of the body of a create / update
Filtered == pick_user_fields(get_json(req.body).data)
Filterable == get_json(req.body).ok /\ Filtered.ok

Rejected400 == Answered /\ reply.kind = "abort" /\ reply.status = 400 /\ ~Forwarded

\* the external service answered with a status the handler takes for a failure
ExternalFailed ==
    /\ resp.kind = "http"
    /\ IF req.op = "delete" THEN resp.status \notin {200, 204} ELSE resp.status >= 400

\* what the receiver of a query string reads back from a quoted value
PercentChar(a, b) ==
    IF <<a, b>> = <<"2", "7">> THEN "'"
    ELSE IF <<a, b>> = <<"3", "D">> THEN "="
    ELSE IF <<a, b>> = <<"2", "B">> THEN "+"
    ELSE IF <<a, b>> = <<"2", "5">> THEN "%"
    ELSE "?"

RECURSIVE unquote_plus(_)
unquote_plus(t) ==
    IF t = <<>> THEN <<>>
    ELSE IF Head(t) = "+" THEN <<" ">> \o unquote_plus(Tail(t))
    ELSE IF Head(t) = "%" /\ Len(t) >= 3
         THEN <<PercentChar(t[2], t[3])>> \o unquote_plus(SubSeq(t, 4, Len(t)))
         ELSE <<Head(t)>> \o unquote_plus(Tail(t))

QueryKeys(q) == {q[i].key : i \in DOMAIN q}
QueryValue(q, key) == q[CHOOSE i \in DOMAIN q : q[i].key = key].value

(***************************************************************************)
(* C1: the payload a Create or Update forwards for a JSON-object body      *)
(* holds exactly the allow-listed members of that body: every forwarded    *)
(* key is allow-listed and carries the inbound value, and every            *)
(* allow-listed inbound key is forwarded.                                  *)
(***************************************************************************)
C1_OnlyAllowListedFieldsForwarded ==
    (IsWrite /\ req.body.kind = "object" /\ Forwarded) =>
        LET inbound == req.body.fields
            members == sent[1].data.json
        IN  /\ sent[1].data.present
            /\ \A m \in members :
                   /\ m[1] \in ALLOWED
                   /\ m[1] \in DOMAIN inbound
                   /\ m[2] = inbound[m[1]]
            /\ \A k \in ALLOWED \cap DOMAIN inbound : <<k, inbound[k]>> \in members

C1_Witness ==
    /\ IsWrite /\ req.body.kind = "object" /\ Forwarded
    /\ {"extra", "objectId", "email", "username", "ID"} \subseteq DOMAIN req.body.fields
    /\ <<"ID", "v">> \in sent[1].data.json

(***************************************************************************)
(* C2: a Create whose filtered payload lacks email or username is answered *)
(* 400 and nothing is sent to the external service, whatever else the      *)
(* payload holds.                                                          *)
(***************************************************************************)
C2_CreateRequiresEmailAndUsername ==
    (req.op = "create" /\ Filterable
        /\ ("email" \notin DOMAIN Filtered.out \/ "username" \notin DOMAIN Filtered.out))
    => Rejected400

C2_Witness ==
    /\ req.op = "create" /\ Filterable
    /\ DOMAIN Filtered.out = ALLOWED \ {"username"}
    /\ Rejected400

(***************************************************************************)
(* C3: an Update whose filtered payload is empty is answered 400 and       *)
(* nothing is sent; an Update whose filtered payload is not empty sends    *)
(* exactly that payload with PUT to <endpoint>/<id>, for PUT and PATCH.    *)
(***************************************************************************)
C3_UpdateNeedsAField ==
    (req.op = "update" /\ Filterable) =>
        IF DOMAIN Filtered.out = {}
        THEN Rejected400
        ELSE /\ Len(sent) = 1
             /\ sent[1].method = "PUT"
             /\ sent[1].url = [path |-> <<BACKENDLESS_BASE_URL, req.id>>, query |-> <<>>]
             /\ sent[1].data.present
             /\ sent[1].data.json = {<<k, Filtered.out[k]>> : k \in DOMAIN Filtered.out}

C3_Witness ==
    /\ req.op = "update" /\ req.method = "PATCH" /\ Answered
    /\ req.body.kind = "object"
    /\ DOMAIN req.body.fields = {"extra", "password"}
    /\ sent[1].data.json = {<<"password", "v">>}

(***************************************************************************)
(* C4: for every operation, when the external service answers with a       *)
(* failure the caller gets the external status and the envelope            *)
(* {error: true, status, backendless}, backendless being the external JSON *)
(* body or, when the body is no JSON, a message made of its text; the      *)
(* outbound call was made once.                                            *)
(***************************************************************************)
C4_ExternalFailureMirrored ==
    (Answered /\ ExternalFailed) =>
        /\ reply.kind = "envelope"
        /\ reply.status = resp.status
        /\ reply.error = TRUE
        /\ reply.body_status = resp.status
        /\ IF resp.body.json
           THEN reply.backendless = [json |-> TRUE, value |-> resp.body.value]
           ELSE /\ ~reply.backendless.json
                /\ resp.body.text # "" => reply.backendless.message = resp.body.text
                /\ resp.body.text = "" => reply.backendless.message = "Backendless error"
        /\ Len(sent) = 1

C4_Witness ==
    /\ Answered /\ ExternalFailed
    /\ req.op = "by-email"
    /\ resp.status = 404 /\ ~resp.body.json /\ resp.body.text = "oops"
    /\ reply.status = 404

(***************************************************************************)
(* C5: Delete answers {deleted: true, objectId: <id>} with status 200      *)
(* exactly when the external status is 200 or 204, whatever the external   *)
(* body; for every other external status it answers the error envelope     *)
(* with that status.                                                       *)
(***************************************************************************)
C5_DeleteConfirmation ==
    (Answered /\ req.op = "delete" /\ resp.kind = "http") =>
        IF resp.status \in {200, 204}
        THEN reply = [kind |-> "deleted", status |-> 200,
                      deleted |-> TRUE, objectId |-> req.id]
        ELSE /\ reply.kind = "envelope"
             /\ reply.status = resp.status
             /\ reply.body_status = resp.status

C5_Witness ==
    /\ Answered /\ req.op = "delete" /\ resp.kind = "http"
    /\ resp.status = 204 /\ ~resp.body.json
    /\ reply.kind = "deleted" /\ reply.objectId = "id2"

(***************************************************************************)
(* C6 as stated: every answered request made exactly one outbound call.    *)
(***************************************************************************)
C6_ExactlyOneOutbound == Answered => Len(sent) = 1

\* the requests a handler ends before any outbound call
EndedLocally ==
    \/ /\ IsWrite
       /\ reply.kind = "abort" /\ reply.status = 400
    \/ /\ IsWrite
       /\ req.body.kind \in {"number", "list", "string"}
       /\ reply.kind = "exception" /\ reply.status = 500
    \/ /\ req.op = "list"
       /\ \E k \in {"pageSize", "offset"} : k \in DOMAIN req.args /\ ~int(req.args[k]).ok
       /\ reply.kind = "exception" /\ reply.status = 500

(***************************************************************************)
(* C6 (amended): a request makes at most one outbound call; an answered    *)
(* request made exactly one, and was answered only after that call ended,  *)
(* unless its handler ended before forwarding (Create / Update answered    *)
(* 400, Create / Update failing on a body that is no JSON object, List     *)
(* failing on a pageSize or offset that is no integer), and then it made   *)
(* none.                                                                   *)
(***************************************************************************)
C6_AtMostOneOutbound ==
    /\ Len(sent) <= 1
    /\ reply # NoReply => Answered
    /\ Answered =>
          \/ Len(sent) = 1 /\ resp # NoResp /\ ~EndedLocally
          \/ Len(sent) = 0 /\ resp = NoResp /\ EndedLocally

C6_Witness ==
    /\ Answered /\ Len(sent) = 1
    /\ req.op = "create" /\ resp.kind = "http" /\ resp.status = 200
    /\ reply.kind = "json" /\ reply.status = 201

(***************************************************************************)
(* C7: a Create or Update whose body cannot be parsed as JSON is answered  *)
(* 400 and nothing is sent to the external service.                        *)
(***************************************************************************)
C7_MalformedBodyRejected ==
    (IsWrite /\ req.body.kind = "malformed") =>
        /\ Answered
        /\ reply.status = 400
        /\ ~Forwarded

C7_Witness ==
    /\ req.op = "update" /\ req.method = "PUT" /\ req.body.kind = "malformed"
    /\ Answered /\ reply.status = 400 /\ ~Forwarded

\* the external service answered List / Get with a success and a JSON body
ReadSucceeded ==
    /\ Answered
    /\ req.op \in {"list", "get"}
    /\ resp.kind = "http" /\ resp.status < 400 /\ resp.body.json

(***************************************************************************)
(* C8 as stated: on an external success List and Get return the external   *)
(* JSON body with the external status.                                     *)
(***************************************************************************)
C8_ReadMirrorsStatus ==
    ReadSucceeded =>
        /\ reply.kind = "json"
        /\ reply.value = resp.body.value
        /\ reply.status = resp.status

(***************************************************************************)
(* C8 (amended): on an external success (a status below 400) with a JSON   *)
(* body, List and Get return that body unchanged with status 200, whatever *)
(* the external success status was.                                        *)
(***************************************************************************)
C8_ReadReturns200 ==
    ReadSucceeded =>
        /\ reply.kind = "json"
        /\ reply.value = resp.body.value
        /\ reply.status = 200

C8_Witness ==
    /\ ReadSucceeded
    /\ req.op = "list" /\ resp.status = 201
    /\ reply.status = 200 /\ reply.value = "J"

\* email or username is missing from the filtered payload / is there but empty
RequiredMissing ==
    "email" \notin DOMAIN Filtered.out \/ "username" \notin DOMAIN Filtered.out
RequiredEmpty ==
    \E k \in {"email", "username"} : k \in DOMAIN Filtered.out /\ Filtered.out[k] = ""

(***************************************************************************)
(* C9 as stated: a Create whose filtered payload has email or username     *)
(* missing or empty is answered 400 and never forwarded.                   *)
(***************************************************************************)
C9_MissingOrEmptyRejected ==
    (req.op = "create" /\ Filterable /\ (RequiredMissing \/ RequiredEmpty)) =>
        /\ ~Forwarded
        /\ Answered => reply.status = 400

(***************************************************************************)
(* C9 (amended): a Create is answered 400 and never forwarded exactly when *)
(* email or username is missing from the filtered payload; a payload that  *)
(* holds both is forwarded even when either value is empty, the empty      *)
(* value included.                                                         *)
(***************************************************************************)
C9_OnlyMissingRejected ==
    (req.op = "create" /\ Filterable) =>
        IF RequiredMissing
        THEN Rejected400
        ELSE /\ Len(sent) = 1
             /\ sent[1].method = "POST"
             /\ \A k \in {"email", "username"} : <<k, Filtered.out[k]>> \in sent[1].data.json

C9_Witness ==
    /\ req.op = "create" /\ Filterable /\ ~RequiredMissing
    /\ Filtered.out["email"] = "" /\ Filtered.out["username"] = "v"
    /\ <<"email", "">> \in sent[1].data.json

\* the integer List reads from an inbound argument, or its default
ArgInt(key, default) ==
    IF key \in DOMAIN req.args THEN int(req.args[key]) ELSE [ok |-> TRUE, val |-> default]

(***************************************************************************)
(* C10 as stated: List always forwards pageSize and offset (50 and 0 when  *)
(* not supplied) and forwards where / sortBy exactly when the inbound      *)
(* request has them, unchanged.                                            *)
(***************************************************************************)
C10_ListQueryWhenPresent ==
    req.op = "list" =>
        /\ Len(sent) = 1
        /\ LET q == sent[1].url.query
           IN  /\ {"pageSize", "offset"} \subseteq QueryKeys(q)
               /\ "pageSize" \notin DOMAIN req.args => QueryValue(q, "pageSize") = <<"5", "0">>
               /\ "offset" \notin DOMAIN req.args => QueryValue(q, "offset") = <<"0">>
               /\ \A k \in {"where", "sortBy"} :
                      /\ k \in QueryKeys(q) <=> k \in DOMAIN req.args
                      /\ k \in QueryKeys(q) => unquote_plus(QueryValue(q, k)) = req.args[k]

(***************************************************************************)
(* C10 (amended): when pageSize and offset, where supplied, are integers,  *)
(* List forwards one query holding pageSize and offset as those integers   *)
(* (50 and 0 when not supplied) and where / sortBy exactly when the        *)
(* inbound request has them with a non-empty value, unchanged; with no     *)
(* inbound argument the query is exactly pageSize=50&offset=0.  When       *)
(* pageSize or offset is supplied and is no integer, the request fails     *)
(* with 500 and nothing is forwarded.                                      *)
(***************************************************************************)
C10_ListQueryWhenNonEmpty ==
    req.op = "list" =>
        IF ArgInt("pageSize", 50).ok /\ ArgInt("offset", 0).ok
        THEN /\ Len(sent) = 1
             /\ sent[1].method = "GET"
             /\ sent[1].url.path = <<BACKENDLESS_BASE_URL>>
             /\ LET q == sent[1].url.query
                    wanted == {"pageSize", "offset"} \cup
                              {k \in {"where", "sortBy"} :
                                   k \in DOMAIN req.args /\ req.args[k] # <<>>}
                IN  /\ QueryKeys(q) = wanted
                    /\ Len(q) = Cardinality(wanted)
                    /\ int(QueryValue(q, "pageSize")) = ArgInt("pageSize", 50)
                    /\ int(QueryValue(q, "offset")) = ArgInt("offset", 0)
                    /\ \A k \in wanted \cap {"where", "sortBy"} :
                           unquote_plus(QueryValue(q, k)) = req.args[k]
                    /\ DOMAIN req.args = {} =>
                           q = <<[key |-> "pageSize", value |-> <<"5", "0">>],
                                 [key |-> "offset", value |-> <<"0">>]>>
        ELSE /\ ~Forwarded
             /\ Answered
             /\ reply.status = 500

C10_Witness ==
    /\ req.op = "list" /\ Forwarded
    /\ DOMAIN req.args = {"pageSize", "where", "sortBy"}
    /\ req.args["pageSize"] = <<"0", "7">>
    /\ req.args["where"] = <<"u", "=", "'", "l", "'">>
    /\ req.args["sortBy"] = <<>>
    /\ QueryKeys(sent[1].url.query) = {"pageSize", "offset", "where"}
    /\ QueryValue(sent[1].url.query, "pageSize") = <<"7">>

====
